---- MODULE Spec2Model ----
(***************************************************************************)
(* Model of dpxdt/client/site_diff.py: the URL cleaner (clean_url), the    *)
(* URL filter (prune_urls) and the SiteDiff.run workflow generator that    *)
(* crawls a site breadth first and then publishes the good pages as runs   *)
(* of a release.                                                           *)
(*                                                                         *)
(* Strings are sequences of one-character strings, so that parsing,        *)
(* splitting and joining are computed as the code computes them.           *)
(***************************************************************************)
EXTENDS Integers, Sequences, FiniteSets, TLC

----------------------------------------------------------------------------
(* String helpers (Python str methods used by the code)                    *)

\* v bound to a name in F: the value of a local variable, computed once.
With(v, F(_)) == CHOOSE r \in {F(x) : x \in {v}} : TRUE

\* The least and the greatest member of a non-empty set of integers.
Min(S) == CHOOSE i \in S : \A j \in S : i <= j
Max(S) == CHOOSE i \in S : \A j \in S : i >= j

\* s.find(c, from), 1-based; 0 when c does not occur at or after from.
Find(s, c, from) ==
    With(s, LAMBDA t :
        IF \E i \in from..Len(t) : t[i] = c
        THEN Min({i \in from..Len(t) : t[i] = c})
        ELSE 0)

\* s.rfind(c), 1-based; 0 when c does not occur.
RFind(s, c) ==
    With(s, LAMBDA t :
        IF \E i \in 1..Len(t) : t[i] = c
        THEN Max({i \in 1..Len(t) : t[i] = c})
        ELSE 0)

\* s[from:] with a 1-based from.
Tail_(s, from) == With(s, LAMBDA t : SubSeq(t, from, Len(t)))

\* s.startswith(p)
StartsWith(s, p) ==
    With(s, LAMBDA t : Len(p) <= Len(t) /\ SubSeq(t, 1, Len(p)) = p)

\* s.split(c): always at least one part.
RECURSIVE Split(_, _)
Split(s, c) ==
    With(s, LAMBDA t :
    With(Find(t, c, 1), LAMBDA i :
        IF i = 0 THEN <<t>>
        ELSE <<SubSeq(t, 1, i - 1)>> \o Split(Tail_(t, i + 1), c)))

\* c.join(parts)
RECURSIVE Join(_, _)
Join(parts, c) ==
    With(parts, LAMBDA ps :
        IF ps = <<>> THEN <<>>
        ELSE IF Len(ps) = 1 THEN ps[1]
        ELSE ps[1] \o <<c>> \o Join(Tail(ps), c))

\* c.lower() for the upper-case letters that occur in the modelled URLs.
LowerChar(c) ==
    CASE c = "P" -> "p"
      [] c = "N" -> "n"
      [] c = "G" -> "g"
      [] c = "H" -> "h"
      [] c = "T" -> "t"
      [] OTHER -> c

\* s.lower()
Lower(s) == With(s, LAMBDA t : [i \in 1..Len(t) |-> LowerChar(t[i])])

----------------------------------------------------------------------------
(* urlparse (Python 2 standard library), as called by clean_url            *)

Letters == {"a", "b", "c", "d", "e", "f", "g", "h", "i", "j", "k", "l", "m",
            "n", "o", "p", "q", "r", "s", "t", "u", "v", "w", "x", "y", "z",
            "G", "H", "N", "P", "T"}
Digits == {"0", "1", "2", "3", "4", "5", "6", "7", "8", "9"}
\* urlparse.scheme_chars
scheme_chars == Letters \cup Digits \cup {"+", "-", "."}

sHttp == <<"h", "t", "t", "p">>
sHttps == <<"h", "t", "t", "p", "s">>
sFtp == <<"f", "t", "p">>
\* urlparse.uses_params and urlparse.uses_netloc, restricted to the schemes
\* that can be spelled here; both lists hold http, https, ftp and ''.
uses_params == {<<>>, sHttp, sHttps, sFtp}
uses_netloc == {<<>>, sHttp, sHttps, sFtp}

\* urlparse._splitnetloc(url, 2): the end of the network location.
NetlocEnd(u) ==
    With(u, LAMBDA t :
        IF \E i \in 3..Len(t) : t[i] \in {"/", "?", "#"}
        THEN Min({i \in 3..Len(t) : t[i] \in {"/", "?", "#"}})
        ELSE Len(t) + 1)

\* s cut at position i (the character at i is dropped); i = 0: no cut.
Cut(s, i) ==
    With(<<s, i>>, LAMBDA a :
        IF a[2] = 0 THEN [head |-> a[1], tail |-> <<>>]
        ELSE [head |-> SubSeq(a[1], 1, a[2] - 1),
              tail |-> Tail_(a[1], a[2] + 1)])

\* s.split(c, 1) as [head, tail]; the tail is empty when c does not occur.
Split1(s, c) == Cut(s, Find(s, c, 1))

\* urlsplit: whether the text before the first ':' is taken as the scheme,
\* c being the url cut at that ':'.
IsScheme(c) ==
    /\ c.head # <<>>
    /\ \/ c.head = sHttp
       \/ /\ \A k \in 1..Len(c.head) : c.head[k] \in scheme_chars
          /\ \/ c.tail = <<>>
             \/ \E k \in 1..Len(c.tail) : c.tail[k] \notin Digits

\* urlsplit: the network location of '//netloc...' and what follows it.
SplitNetloc(u) ==
    With(u, LAMBDA t :
    With(NetlocEnd(t), LAMBDA e :
        IF StartsWith(t, <<"/", "/">>)
        THEN [netloc |-> SubSeq(t, 3, e - 1), rest |-> Tail_(t, e)]
        ELSE [netloc |-> <<>>, rest |-> t]))

\* urlparse.urlsplit(url): scheme, then netloc, then fragment, then query.
urlsplit(url) ==
    With(Split1(url, ":"), LAMBDA c :
    With(IF Find(url, ":", 1) > 0 /\ IsScheme(c)
         THEN [scheme |-> Lower(c.head), rest |-> c.tail]
         ELSE [scheme |-> <<>>, rest |-> url], LAMBDA s :
    With(SplitNetloc(s.rest), LAMBDA n :
    With(Split1(n.rest, "#"), LAMBDA f :
    With(Split1(f.head, "?"), LAMBDA q :
        [scheme |-> s.scheme, netloc |-> n.netloc, path |-> q.head,
         query |-> q.tail, fragment |-> f.tail])))))

\* urlparse._splitparams(url): the parameters of the last path segment.
splitparams(url) ==
    With(url, LAMBDA t :
        Cut(t, IF Find(t, "/", 1) > 0
               THEN Find(t, ";", RFind(t, "/"))
               ELSE Find(t, ";", 1)))

\* urlparse.urlparse(url)
urlparse(url) ==
    With(urlsplit(url), LAMBDA s :
    With(IF s.scheme \in uses_params /\ Find(s.path, ";", 1) > 0
         THEN splitparams(s.path)
         ELSE [head |-> s.path, tail |-> <<>>], LAMBDA sp :
        [scheme |-> s.scheme, netloc |-> s.netloc, path |-> sp.head,
         params |-> sp.tail, query |-> s.query, fragment |-> s.fragment]))

\* urlparse.urlunsplit((scheme, netloc, url, query, fragment))
urlunsplit(scheme, netloc, url, query, fragment) ==
    (IF scheme # <<>> THEN scheme \o <<":">> ELSE <<>>)
    \o (IF \/ netloc # <<>>
           \/ /\ scheme # <<>>
              /\ scheme \in uses_netloc
              /\ ~StartsWith(url, <<"/", "/">>)
        THEN <<"/", "/">> \o netloc \o
             (IF url # <<>> /\ url[1] # "/" THEN <<"/">> ELSE <<>>)
        ELSE <<>>)
    \o url
    \o (IF query # <<>> THEN <<"?">> \o query ELSE <<>>)
    \o (IF fragment # <<>> THEN <<"#">> \o fragment ELSE <<>>)

\* urlparse.urlunparse(parts)
urlunparse(parts) ==
    With(parts, LAMBDA p :
        urlunsplit(p.scheme, p.netloc,
                   IF p.params # <<>> THEN p.path \o <<";">> \o p.params
                   ELSE p.path,
                   p.query, p.fragment))

----------------------------------------------------------------------------
(* clean_url                                                               *)

\* Mutant: a '..' with nothing left to remove is kept in the path.
RECURSIVE CollapsePartsUnclamped(_, _)
CollapsePartsUnclamped(parts, path_parts) ==
    With(<<parts, path_parts>>, LAMBDA a :
        IF a[1] = <<>> THEN a[2]
        ELSE IF Head(a[1]) = <<".">>
        THEN CollapsePartsUnclamped(Tail(a[1]), a[2])
        ELSE IF Head(a[1]) = <<".", ".">> /\ a[2] # <<>>
        THEN CollapsePartsUnclamped(Tail(a[1]),
                                    SubSeq(a[2], 1, Len(a[2]) - 1))
        ELSE CollapsePartsUnclamped(Tail(a[1]), Append(a[2], Head(a[1]))))

\* The loop of clean_url over the path's parts: drop '.', pop on '..'.
RECURSIVE CollapseParts(_, _)
CollapseParts(parts, path_parts) ==
    With(<<parts, path_parts>>, LAMBDA a :
        IF a[1] = <<>> THEN a[2]
        ELSE IF Head(a[1]) = <<".">>
        THEN CollapseParts(Tail(a[1]), a[2])
        ELSE IF Head(a[1]) = <<".", ".">>
        THEN CollapseParts(Tail(a[1]),
                 IF a[2] # <<>> THEN SubSeq(a[2], 1, Len(a[2]) - 1)
                 ELSE a[2])
        ELSE CollapseParts(Tail(a[1]), Append(a[2], Head(a[1]))))

\* clean_url(url, force_scheme); force_scheme = <<>> stands for None.
clean_url(url, force_scheme) ==
    With(urlparse(url), LAMBDA url_parts :
    With(Join(CollapseParts(Split(url_parts.path, "/"), <<>>), "/"),
         LAMBDA path :
        urlunparse([scheme |-> IF force_scheme # <<>> THEN force_scheme
                               ELSE url_parts.scheme,
                    netloc |-> url_parts.netloc,
                    path |-> IF path = <<>> THEN <<"/">> ELSE path,
                    params |-> url_parts.params,
                    query |-> <<>>,
                    fragment |-> <<>>])))

----------------------------------------------------------------------------
(* extract_urls and prune_urls                                             *)

\* str.rstrip('/')
RECURSIVE RStripSlash(_)
RStripSlash(s) ==
    With(s, LAMBDA t :
        IF t # <<>> /\ t[Len(t)] = "/"
        THEN RStripSlash(SubSeq(t, 1, Len(t) - 1)) ELSE t)

\* os.path.dirname(p): the text up to the last '/', without trailing '/'
\* unless it holds nothing else.
dirname(p) ==
    With(SubSeq(p, 1, RFind(p, "/")), LAMBDA head :
        IF head # <<>> /\ (\E k \in 1..Len(head) : head[k] # "/")
        THEN RStripSlash(head) ELSE head)

\* Lines 140-142
accessed_dir(path) ==
    With(dirname(path), LAMBDA d :
        IF d # <<>> /\ d[Len(d)] = "/" THEN d ELSE d \o <<"/">>)

\* s starts with p, letter case ignored ((?i) of TAG_START holds for the
\* whole pattern).
StartsWithCI(s, p) ==
    With(s, LAMBDA t :
        Len(p) <= Len(t) /\ Lower(SubSeq(t, 1, Len(p))) = Lower(p))

\* http(s?)://
IsHttp(v) ==
    \/ StartsWithCI(v, sHttp \o <<":", "/", "/">>)
    \/ StartsWithCI(v, sHttps \o <<":", "/", "/">>)

\* What the lookahead (?!(/)|(http(s?)://)|(url\()) refuses.
Refused(v) ==
    \/ StartsWith(v, <<"/">>)
    \/ IsHttp(v)
    \/ StartsWithCI(v, <<"u", "r", "l", "(">>)

\* A document is a set of attributes [tag, spaced, quote, value]: tag, '=',
\* an optional quote and the value, which holds no quote, no '>', no white
\* space and no '='; spaced says that white space precedes the tag.
\* TAG_START: (?i)(?P<tag>\ssrc|href|action|url|background)
TagStart(a) ==
    \/ a.tag \in {"href", "action", "url", "background"}
    \/ a.tag = "src" /\ a.spaced

\* The character that follows the value.
Term(a) == IF a.quote = "" THEN ">" ELSE a.quote

\* TAG_START + SAME_DIR_URL_REGEX -> accessed_dir + url
SameDir(v, dir) ==
    With(v, LAMBDA t :
        IF t # <<>> /\ ~Refused(t) /\ t[1] # "#" THEN dir \o t ELSE t)

\* TAG_START + TRAVERSAL_URL_REGEX -> accessed_dir + '/' + relative + '/' + url
Traversal(v, dir) ==
    With(v, LAMBDA t :
        IF StartsWith(t, <<".", ".", "/">>) /\ ~Refused(Tail_(t, 4))
        THEN dir \o <<"/", ".", ".", "/">> \o Tail_(t, 4)
        ELSE IF StartsWith(t, <<".", "/">>) /\ ~Refused(Tail_(t, 3))
        THEN dir \o <<"/", ".", "/">> \o Tail_(t, 3)
        ELSE t)

\* TAG_START + BASE_RELATIVE_URL_REGEX -> base + '/' + url
BaseRelative(v, base) ==
    With(v, LAMBDA t :
        IF StartsWith(t, <<"/">>) /\ ~Refused(Tail(t))
        THEN base \o <<"/">> \o Tail(t) ELSE t)

\* TAG_START + ROOT_DIR_URL_REGEX -> base + '/': a '/' that is not the
\* start of '//' (unless '>' follows the '//') and that a quote, '>' or '/'
\* follows.
RootDir(v, term, base) ==
    With(v, LAMBDA t :
        IF /\ StartsWith(t, <<"/">>)
           /\ ~(/\ Len(t) >= 2 /\ t[2] = "/"
                /\ (IF Len(t) >= 3 THEN t[3] ELSE term) # ">")
           /\ (IF Len(t) >= 2 THEN t[2] ELSE term) \in {"\"", "'", ">", "/"}
        THEN base \o <<"/">> \o Tail(t) ELSE t)

\* TAG_START + ABSOLUTE_URL_REGEX -> url
Absolute(v) == v

\* Lines 144-149: the value of an attribute after the REPLACEMENT_REGEXES,
\* in their order.
Rewrite(a, base, dir) ==
    Absolute(RootDir(BaseRelative(Traversal(SameDir(a.value, dir), dir), base),
                     Term(a), base))

\* MAYBE_HTML_URL_REGEX's absurl: (http(s?):)?//[^\"'> \t]+
MaybeHtmlUrl(v) ==
    With(v, LAMBDA t :
        \E pre \in {sHttp \o <<":", "/", "/">>, sHttps \o <<":", "/", "/">>,
                     <<"/", "/">>} :
            StartsWithCI(t, pre) /\ Len(t) > Len(pre))

\* HTMLParser.unescape on the entity the documents hold: '&amp;' is '&'.
RECURSIVE unescape(_)
unescape(s) ==
    With(s, LAMBDA t :
        IF t = <<>> THEN <<>>
        ELSE IF StartsWith(t, <<"&", "a", "m", "p", ";">>)
        THEN <<"&">> \o unescape(Tail_(t, 6))
        ELSE <<Head(t)>> \o unescape(Tail(t)))

\* extract_urls(url, data)
extract_urls(url, data) ==
    With(urlparse(url), LAMBDA parts :
    With(parts.scheme \o <<":", "/", "/">> \o parts.netloc, LAMBDA prefix :
    With(accessed_dir(parts.path), LAMBDA dir :
        {clean_url(unescape(found), parts.scheme) :
            found \in {w \in {Rewrite(a, prefix, dir) :
                                 a \in {b \in data : TagStart(b)}} :
                           MaybeHtmlUrl(w)}})))

IGNORE_SUFFIXES ==
    {<<"j", "p", "g">>, <<"j", "p", "e", "g">>, <<"p", "n", "g">>,
     <<"c", "s", "s">>, <<"j", "s">>, <<"x", "m", "l">>,
     <<"j", "s", "o", "n">>, <<"g", "i", "f">>, <<"i", "c", "o">>,
     <<"d", "o", "c">>}

\* (url.rsplit('.', 1) + [''])[:2][1]: the text after the last '.', or ''.
RSplitSuffix(url) ==
    IF RFind(url, ".") = 0 THEN <<>> ELSE Tail_(url, RFind(url, ".") + 1)

\* Mutant: the ignored prefixes are not looked at.
prune_urls_no_ignore(url_set, start, allowed_list, ignored_list) ==
    {url \in url_set :
        /\ \E k \in 1..Len(allowed_list) : StartsWith(url, allowed_list[k])
        /\ Lower(RSplitSuffix(url)) \notin IGNORE_SUFFIXES}

\* Mutant: the suffix is compared as written, not in lower case.
prune_urls_case_sensitive(url_set, start, allowed_list, ignored_list) ==
    {url \in url_set :
        /\ \E k \in 1..Len(allowed_list) : StartsWith(url, allowed_list[k])
        /\ ~\E k \in 1..Len(ignored_list) : StartsWith(url, ignored_list[k])
        /\ RSplitSuffix(url) \notin IGNORE_SUFFIXES}

\* prune_urls(url_set, start_url, allowed_list, ignored_list)
prune_urls(url_set, start, allowed_list, ignored_list) ==
    {url \in url_set :
        /\ \E k \in 1..Len(allowed_list) : StartsWith(url, allowed_list[k])
        /\ ~\E k \in 1..Len(ignored_list) : StartsWith(url, ignored_list[k])
        /\ Lower(RSplitSuffix(url)) \notin IGNORE_SUFFIXES}

----------------------------------------------------------------------------
(* Inputs of a run                                                         *)

uH == <<"h", "t", "t", "p", ":", "/", "/", "h">>
\* The start URLs a caller supplies: "http://h/" and "http://h".
StartUrls == {uH \o <<"/">>, uH}
\* FLAGS.ignore_prefixes: "http://h/i".
IgnorePrefixes == <<uH \o <<"/", "i">>>>

\* References that fetched documents hold.
RefSeed == uH \o <<"/">>
RefA == uH \o <<"/", "a">>
RefB == <<"/", "/", "h", "/", ".", "/", "b", "#", "x">>
RefOut == <<"h", "t", "t", "p", ":", "/", "/", "o", "/">>
RefIgn == uH \o <<"/", "i", "/", "c">>
RefPng == uH \o <<"/", "a", ".", "P", "N", "G">>
RawRefs == {RefSeed, RefA, RefB, RefOut, RefIgn, RefPng}

\* The canonical URLs of the pages.
UrlSeed == uH \o <<"/">>
UrlA == uH \o <<"/", "a">>
UrlB == uH \o <<"/", "b">>

\* Most references one document holds.
MaxRefs == 2
Docs == {d \in SUBSET RawRefs : Cardinality(d) <= MaxRefs}

\* FLAGS.crawl_depth ranges over -1..MaxCrawlDepth.
MaxCrawlDepth == 1
\* No level beyond MaxLevels is dispatched.
MaxLevels == 4

None == "None"
TextHtml == "text/html"
BuildId == "build"
ReleaseNames == {None, "release"}
TimestampName == "utcnow"
ReleaseNumbers == {1, 2}
ReleaseUrl == "release_url"
\* json.dumps({'viewportSize': {'width': 1024, 'height': 768}})
ConfigData == "viewportSize 1024x768"

\* What the fetch of one URL can come back with: no data (also a failed
\* fetch), a non-HTML body, or an HTML body holding some references.
FetchOutcomes ==
    {[data |-> FALSE, ctype |-> None, refs |-> {}],
     [data |-> FALSE, ctype |-> TextHtml, refs |-> {}],
     [data |-> TRUE, ctype |-> "text/plain", refs |-> {RefA, RefB}]}
    \cup {[data |-> TRUE, ctype |-> TextHtml, refs |-> d] : d \in Docs}

\* The fetch result of an item that is not done yet.
NoOutcome == [data |-> FALSE, ctype |-> None, refs |-> {}]
\* Sites whose pages are fixed: what the fetch of each page comes back with.
Pages == {UrlSeed, UrlA, UrlB}
Html(refs) == [data |-> TRUE, ctype |-> TextHtml, refs |-> refs]
\* The seed links to a page under the start URL and to one outside it.
LinkSite == (UrlSeed :> Html({RefA, RefOut})) @@ (UrlA :> Html({RefB}))
            @@ (UrlB :> Html({}))
\* The seed and another page link to each other.
CycleSite == (UrlSeed :> Html({RefA})) @@ (UrlA :> Html({RefSeed}))
             @@ (UrlB :> NoOutcome)
\* The link to one page is held by a page that is not HTML.
PlainSite == (UrlSeed :> Html({RefA, RefPng}))
             @@ (UrlA :> [data |-> TRUE, ctype |-> "text/plain",
                          refs |-> {RefA, RefB}])
             @@ (UrlB :> Html({RefSeed}))
Sites == {LinkSite, CycleSite, PlainSite}
\* No fixed site: a fetch comes back with any outcome.
NoSite == [p \in Pages |-> [data |-> FALSE, ctype |-> "any", refs |-> {}]]

\* The document of a page: each reference is the value of an href.
Attrs(refs) ==
    {[tag |-> "href", spaced |-> TRUE, quote |-> "\"", value |-> r] :
        r \in refs}

\* The orders in which a set can be iterated.
Orderings(S) ==
    {f \in [1..Cardinality(S) -> S] : \A i, j \in 1..Cardinality(S) :
                                          i # j => f[i] # f[j]}

----------------------------------------------------------------------------
(* SiteDiff.run                                                            *)

VARIABLES
    pc,                   \* the yield at which the generator is suspended
    start_url, crawl_depth, upload_release_name,     \* arguments and flags
    pending_urls, seen_urls, good_urls, depth,       \* locals of the crawl
    output,               \* the FetchItems of the batch being awaited
    idx,                  \* position of "for item in output"
    release_name,         \* upload_release_name after line 269
    release_number,       \* 0 until CreateReleaseWorkflow has returned
    run_requests, release_url,                       \* locals of publishing
    n_create, n_finalize, \* requests the release server has received
    events,               \* heartbeat messages, in the order emitted
    processed,            \* fetch results the for loop has gone through
    fetches,              \* the batches of URLs given to the fetcher so far
    site,                 \* the site crawled: NoSite answers in any way
    probe                 \* clean_url under test (SpecClean)

conf == <<start_url, crawl_depth, upload_release_name>>
sets == <<pending_urls, seen_urls, good_urls>>
pub == <<release_name, release_number, run_requests, release_url,
         n_create, n_finalize>>
hist == <<events, processed, fetches>>
vars == <<pc, conf, sets, depth, output, idx, pub, hist, site, probe>>

\* No call of clean_url is under test.
NoProbe == [stage |-> 0, url |-> <<>>, force |-> <<>>, once |-> <<>>,
            twice |-> <<>>]

Init ==
    /\ pc = "start"
    /\ start_url \in StartUrls
    /\ crawl_depth \in -1..MaxCrawlDepth
    /\ upload_release_name \in ReleaseNames
    /\ pending_urls = {} /\ seen_urls = {} /\ good_urls = {}
    /\ depth = 0
    /\ output = <<>> /\ idx = 1
    /\ release_name = None /\ release_number = 0
    /\ run_requests = {} /\ release_url = None
    /\ n_create = 0 /\ n_finalize = 0
    /\ events = <<>>
    /\ processed = {}
    /\ fetches = <<>>
    /\ site \in {NoSite} \cup Sites
    /\ probe = NoProbe

\* Mutant: the release is requested before the crawl.
StartRequestsRelease ==
    /\ pc = "start"
    /\ pending_urls' = {clean_url(start_url, <<>>)}
    /\ seen_urls' = {}
    /\ good_urls' = {}
    /\ n_create' = n_create + 1
    /\ events' = Append(events, [kind |-> "scanning"])
    /\ pc' = "scanning"
    /\ UNCHANGED <<conf, depth, output, idx, release_name, release_number,
                   run_requests, release_url, n_finalize, processed, fetches,
                   site, probe>>

\* Lines 220-229: the locals, then yield heartbeat('Scanning for content').
Start ==
    /\ pc = "start"
    /\ pending_urls' = {clean_url(start_url, <<>>)}
    /\ seen_urls' = {}
    /\ good_urls' = {}
    /\ events' = Append(events, [kind |-> "scanning"])
    /\ pc' = "scanning"
    /\ UNCHANGED <<conf, depth, output, idx, pub, processed, fetches, site,
                   probe>>

\* Mutant: the depth test lets one more level through.
LoopConditionOffByOne(d) ==
    (~(crawl_depth >= 0) \/ d <= crawl_depth + 1) /\ pending_urls # {}

\* Line 233: the condition of the while loop at depth d.
LoopCondition(d) ==
    (~(crawl_depth >= 0) \/ d <= crawl_depth) /\ pending_urls # {}

\* Mutant: seen_urls is replaced by the batch instead of updated.
UpdateSeenReplaced(seen, pending) == pending

\* Line 237: seen_urls.update(pending_urls)
UpdateSeen(seen, pending) == seen \cup pending

\* Line 238: the FetchItems of a batch, none of them done.
FetchItems(order) ==
    [i \in 1..Len(order) |->
        [url |-> order[i], done |-> FALSE, data |-> FALSE, ctype |-> None,
         refs |-> {}]]

\* Line 233, the while test, with depth d; then lines 237-238 (the batch of
\* FetchItems is yielded) or lines 263-265 (the loop is left).
WhileTest(d) ==
    /\ depth' = d
    /\ IF LoopCondition(d)
       THEN /\ d < MaxLevels
            /\ seen_urls' = UpdateSeen(seen_urls, pending_urls)
            /\ \E order \in Orderings(pending_urls) :
                   output' = FetchItems(order)
            /\ fetches' = Append(fetches, pending_urls)
            /\ idx' = 1
            /\ pc' = "fetching"
            /\ UNCHANGED <<pending_urls, good_urls, events>>
       ELSE /\ events' = Append(events,
                   [kind |-> "total", total |-> Cardinality(seen_urls),
                    good |-> Cardinality(good_urls)])
            /\ pc' = "total"
            /\ UNCHANGED <<sets, output, idx, fetches>>
    /\ UNCHANGED <<conf, pub, processed, site, probe>>

\* Resumed from line 229: lines 231-233.
EnterLoop ==
    /\ pc = "scanning"
    /\ WhileTest(0)

\* Mutant: depth is not incremented.
NextLevelNoIncrement ==
    /\ pc = "finished"
    /\ WhileTest(depth)

\* Resumed from line 260: line 261, then the while test.
NextLevel ==
    /\ pc = "finished"
    /\ WhileTest(depth + 1)

\* workers.FetchItem: the fetch of output[i] completes with an outcome.
FetchDone(i, outcome) ==
    /\ pc = "fetching"
    /\ i \in 1..Len(output)
    /\ ~output[i].done
    /\ site # NoSite => outcome = site[output[i].url]
    /\ output' = [output EXCEPT ![i] =
                     [url |-> output[i].url, done |-> TRUE,
                      data |-> outcome.data, ctype |-> outcome.ctype,
                      refs |-> outcome.refs]]
    /\ UNCHANGED <<pc, conf, sets, depth, idx, pub, hist, site, probe>>

\* The coordinator resumes a workflow that yielded a list only when every
\* item of the list is done.
BatchDone(items) == \A i \in 1..Len(items) : items[i].done

\* Mutant: the content type is not looked at.
SkippedNoType(item) == ~item.data

\* Mutant: an empty body is not looked at.
SkippedNoData(item) == item.ctype # TextHtml

\* Lines 242-249: the item is skipped.
Skipped(item) == ~item.data \/ item.ctype # TextHtml

\* What the for loop has seen of an item.
Result(item) == [url |-> item.url, data |-> item.data, ctype |-> item.ctype]

\* The first item at or after i that is not skipped; 0 when there is none.
NextGood(items, i) ==
    LET ks == {k \in i..Len(items) : ~Skipped(items[k])}
    IN  IF ks = {} THEN 0 ELSE CHOOSE k \in ks : \A j \in ks : k <= j

\* Mutant: URLs seen before are taken as new.
NewUrlsNoDedup(pruned, seen) == pruned

\* Line 255
NewUrls(pruned, seen) == pruned \ seen

\* Mutant: the heartbeat of line 260 is not emitted.
ForLoopNoFinished(i, pend) ==
    LET k == NextGood(output, i)
    IN  IF k = 0
        THEN /\ processed' = processed \cup
                                {Result(output[j]) : j \in i..Len(output)}
             /\ output' = <<>>
             /\ idx' = 1
             /\ pending_urls' = pend
             /\ events' = events
             /\ pc' = "finished"
             /\ UNCHANGED <<seen_urls, good_urls>>
        ELSE LET item == output[k]
                 found == extract_urls(item.url, Attrs(item.refs))
                 pruned == prune_urls(found, start_url, <<start_url>>,
                                      IgnorePrefixes)
                 new == NewUrls(pruned, seen_urls)
             IN  /\ processed' = processed \cup {Result(output[j]) : j \in i..k}
                 /\ output' = output
                 /\ idx' = k + 1
                 /\ good_urls' = good_urls \cup {item.url}
                 /\ pending_urls' = pend \cup new
                 /\ events' = Append(events,
                        [kind |-> "found", n |-> Cardinality(new),
                         url |-> item.url])
                 /\ pc' = "found"
                 /\ UNCHANGED seen_urls

\* Lines 241-260 from item i on, with pending_urls as pend: the skipped items
\* are passed over; the first good item is handled up to the yield of line
\* 257; when none is left the yield of line 260 is reached, and output,
\* which is not read again, is dropped.
ForLoop(i, pend) ==
    LET k == NextGood(output, i)
    IN  IF k = 0
        THEN /\ processed' = processed \cup
                                {Result(output[j]) : j \in i..Len(output)}
             /\ output' = <<>>
             /\ idx' = 1
             /\ pending_urls' = pend
             /\ events' = Append(events, [kind |-> "finished", depth |-> depth])
             /\ pc' = "finished"
             /\ UNCHANGED <<seen_urls, good_urls>>
        ELSE LET item == output[k]
                 found == extract_urls(item.url, Attrs(item.refs))
                 pruned == prune_urls(found, start_url, <<start_url>>,
                                      IgnorePrefixes)
                 new == NewUrls(pruned, seen_urls)
             IN  /\ processed' = processed \cup {Result(output[j]) : j \in i..k}
                 /\ output' = output
                 /\ idx' = k + 1
                 /\ good_urls' = good_urls \cup {item.url}
                 /\ pending_urls' = pend \cup new
                 /\ events' = Append(events,
                        [kind |-> "found", n |-> Cardinality(new),
                         url |-> item.url])
                 /\ pc' = "found"
                 /\ UNCHANGED seen_urls

\* Mutant: the results are gone through before the whole batch is done.
ProcessOutputEarly ==
    /\ pc = "fetching"
    /\ ForLoop(1, {})
    /\ UNCHANGED <<conf, depth, pub, fetches, site, probe>>

\* Mutant: pending_urls is not cleared before the results are gone through.
ProcessOutputNoClear ==
    /\ pc = "fetching"
    /\ BatchDone(output)
    /\ ForLoop(1, pending_urls)
    /\ UNCHANGED <<conf, depth, pub, fetches, site, probe>>

\* Resumed from line 238 with the batch's results: line 239, then the loop.
ProcessOutput ==
    /\ pc = "fetching"
    /\ BatchDone(output)
    /\ ForLoop(1, {})
    /\ UNCHANGED <<conf, depth, pub, fetches, site, probe>>

\* Resumed from line 257: the loop goes on with the next item.
ContinueOutput ==
    /\ pc = "found"
    /\ ForLoop(idx, pending_urls)
    /\ UNCHANGED <<conf, depth, pub, fetches, site, probe>>

\* Resumed from line 265: lines 268-272, CreateReleaseWorkflow is yielded.
RequestRelease ==
    /\ pc = "total"
    /\ release_name' = IF upload_release_name = None THEN TimestampName
                       ELSE upload_release_name
    /\ n_create' = n_create + 1
    /\ pc' = "creating"
    /\ UNCHANGED <<conf, sets, depth, output, idx, release_number,
                   run_requests, release_url, n_finalize, hist, site,
                   probe>>

\* Mutant: a run is requested for every URL seen.
RunRequestsOfSeen(urls, number) ==
    {[build_id |-> BuildId, release_name |-> release_name,
      release_number |-> number, run_name |-> urlparse(url).path,
      url |-> url, config_data |-> ConfigData, state |-> "pending"] :
         url \in seen_urls}

\* Lines 274-289: one RequestRunWorkflow per good URL.
RunRequests(urls, number) ==
    {[build_id |-> BuildId, release_name |-> release_name,
      release_number |-> number, run_name |-> urlparse(url).path,
      url |-> url, config_data |-> ConfigData, state |-> "pending"] :
         url \in urls}

\* release_worker.CreateReleaseWorkflow returned number: lines 271-291,
\* the list of run requests is yielded.
ReleaseCreated(number) ==
    /\ pc = "creating"
    /\ release_number' = number
    /\ run_requests' = RunRequests(good_urls, number)
    /\ pc' = "registering"
    /\ UNCHANGED <<conf, sets, depth, output, idx, release_name, release_url,
                   n_create, n_finalize, hist, site, probe>>

\* A workflow the generator waits for raised: the error is thrown into the
\* generator at its yield; run has no try, so the run ends with the error.
Raise ==
    /\ pc' = "failed"
    /\ UNCHANGED <<conf, sets, depth, output, idx, pub, hist, site,
                   probe>>

\* release_worker.CreateReleaseWorkflow failed.
ReleaseFailed ==
    /\ pc = "creating"
    /\ Raise

\* release_worker.RequestRunWorkflow: one run request completes or fails.
RunDone(r, ok) ==
    /\ pc = "registering"
    /\ r \in run_requests
    /\ r.state = "pending"
    /\ run_requests' = (run_requests \ {r}) \cup
           {[r EXCEPT !.state = IF ok THEN "ok" ELSE "error"]}
    /\ UNCHANGED <<pc, conf, sets, depth, output, idx, release_name,
                   release_number, release_url, n_create, n_finalize, events,
                   processed, fetches, site, probe>>

\* Every request of the yielded list is done.
RunsJoined(requests) == \A r \in requests : r.state # "pending"

\* Mutant: the generator goes on before every run request is done.
RunsRegisteredEarly ==
    /\ pc = "registering"
    /\ \A r \in run_requests : r.state # "error"
    /\ events' = Append(events, [kind |-> "marking"])
    /\ pc' = "marking"
    /\ UNCHANGED <<conf, sets, depth, output, idx, pub, processed, fetches,
                   site, probe>>

\* Resumed from line 291 without error: line 293.
RunsRegistered ==
    /\ pc = "registering"
    /\ RunsJoined(run_requests)
    /\ \A r \in run_requests : r.state = "ok"
    /\ events' = Append(events, [kind |-> "marking"])
    /\ pc' = "marking"
    /\ UNCHANGED <<conf, sets, depth, output, idx, pub, processed, fetches,
                   site, probe>>

\* Mutant: the error of a run request is caught and the run goes on.
RunsFailedCaught ==
    /\ pc = "registering"
    /\ RunsJoined(run_requests)
    /\ \E r \in run_requests : r.state = "error"
    /\ events' = Append(events, [kind |-> "marking"])
    /\ pc' = "marking"
    /\ UNCHANGED <<conf, sets, depth, output, idx, pub, processed, fetches,
                   site, probe>>

\* Resumed from line 291 with the error of a run request.
RunsFailed ==
    /\ pc = "registering"
    /\ RunsJoined(run_requests)
    /\ \E r \in run_requests : r.state = "error"
    /\ Raise

\* Resumed from line 293: lines 294-295, RunsDoneWorkflow is yielded.
RequestRunsDone ==
    /\ pc = "marking"
    /\ n_finalize' = n_finalize + 1
    /\ pc' = "finalizing"
    /\ UNCHANGED <<conf, sets, depth, output, idx, release_name,
                   release_number, run_requests, release_url, n_create,
                   hist, site, probe>>

\* release_worker.RunsDoneWorkflow returned the release's URL: line 297.
RunsDoneReturned ==
    /\ pc = "finalizing"
    /\ release_url' = ReleaseUrl
    /\ events' = Append(events, [kind |-> "results", url |-> ReleaseUrl])
    /\ pc' = "results"
    /\ UNCHANGED <<conf, sets, depth, output, idx, release_name,
                   release_number, run_requests, n_create, n_finalize,
                   processed, fetches, site, probe>>

\* release_worker.RunsDoneWorkflow failed.
RunsDoneFailed ==
    /\ pc = "finalizing"
    /\ Raise

\* Resumed from line 297: the generator ends.
Finish ==
    /\ pc = "results"
    /\ pc' = "done"
    /\ UNCHANGED <<conf, sets, depth, output, idx, pub, hist, site,
                   probe>>

Next ==
    \/ Start
    \/ EnterLoop
    \/ NextLevel
    \/ \E i \in 1..Len(output), outcome \in FetchOutcomes : FetchDone(i, outcome)
    \/ ProcessOutput
    \/ ContinueOutput
    \/ RequestRelease
    \/ \E number \in ReleaseNumbers : ReleaseCreated(number)
    \/ ReleaseFailed
    \/ \E r \in run_requests, ok \in BOOLEAN : RunDone(r, ok)
    \/ RunsRegistered
    \/ RunsFailed
    \/ RequestRunsDone
    \/ RunsDoneReturned
    \/ RunsDoneFailed
    \/ Finish

Spec == Init /\ [][Next]_vars

----------------------------------------------------------------------------
(* clean_url applied to a URL, and again to its result                     *)

\* Longest text that follows the host in a URL under test.
MaxTail == 5
TailChars == {"/", ".", ";", "a", "?"}
Tails == UNION {[1..n -> TailChars] : n \in 0..MaxTail}
\* clean_url is called with start_url and with absurl matches, which start
\* with a scheme and '//' or with '//': "http://h", "https://h", "//h".
UrlHeads == {uH, sHttps \o <<":", "/", "/", "h">>, <<"/", "/", "h">>}
\* force_scheme: None, or the scheme of the page.
ForceSchemes == {<<>>, sHttps}

\* The URLs of the documented examples of clean_url.
ExDotDot == uH \o <<"/", "a", "/", "b", "/", ".", ".", "/", "c">>
ExDot == uH \o <<"/", "a", "/", ".", "/", "b", "/">>
ExQuery == uH \o <<"/", "a", "?", "x", "=", "1", "#", "y">>
ExPastRoot == uH \o <<"/", ".", ".", "/", "x">>
ExFarPastRoot == uH \o <<"/", ".", ".", "/", ".", ".", "/", "x">>
ExampleUrls == {ExDotDot, ExDot, ExQuery, ExPastRoot, ExFarPastRoot}

CleanInit ==
    /\ pc = "idle"
    /\ start_url = <<>> /\ crawl_depth = -1 /\ upload_release_name = None
    /\ pending_urls = {} /\ seen_urls = {} /\ good_urls = {}
    /\ depth = 0
    /\ output = <<>> /\ idx = 1
    /\ release_name = None /\ release_number = 0
    /\ run_requests = {} /\ release_url = None
    /\ n_create = 0 /\ n_finalize = 0
    /\ events = <<>>
    /\ processed = {}
    /\ fetches = <<>>
    /\ site = NoSite
    /\ \E url \in {head \o tail : head \in UrlHeads, tail \in Tails}
                   \cup ExampleUrls, force \in ForceSchemes :
           probe = [stage |-> 0, url |-> url, force |-> force,
                    once |-> <<>>, twice |-> <<>>]

\* clean_url(url, force_scheme)
CleanOnce ==
    /\ probe.stage = 0
    /\ probe' = [probe EXCEPT !.stage = 1,
                              !.once = clean_url(probe.url, probe.force)]
    /\ UNCHANGED <<pc, conf, sets, depth, output, idx, pub, hist, site>>

\* clean_url(clean_url(url, force_scheme), force_scheme)
CleanTwice ==
    /\ probe.stage = 1
    /\ probe' = [probe EXCEPT !.stage = 2,
                              !.twice = clean_url(probe.once, probe.force)]
    /\ UNCHANGED <<pc, conf, sets, depth, output, idx, pub, hist, site>>

CleanNext == CleanOnce \/ CleanTwice

SpecClean == CleanInit /\ [][CleanNext]_vars

----------------------------------------------------------------------------
(* prune_urls applied to a set of candidate URLs                           *)

CandPng == uH \o <<"/", "a", "/", "b", ".", "p", "n", "g">>
CandPNG == uH \o <<"/", "a", "/", "b", ".", "P", "N", "G">>
CandJson == uH \o <<"/", "x", ".", "j", "s", "o", "n">>
CandHtml == uH \o <<"/", "a", ".", "h", "t", "m", "l">>
CandOther == uH \o <<"/", "o", "t", "h", "e", "r">>
CandOut == <<"h", "t", "t", "p", ":", "/", "/", "o", "/">>
Candidates ==
    {CandPng, CandPNG, CandJson, CandHtml, CandOther, CandOut,
     uH \o <<"/", "a", ".", "b", "/", "c">>,
     uH \o <<"/", "s", "e", "c", "t", "i", "o", "n">>,
     uH \o <<"/", "i", "/", "c">>}
\* Most candidates in one call.
MaxCands == 2
CandSets == {c \in SUBSET Candidates : Cardinality(c) <= MaxCands}
PfxHost == uH \o <<"/">>
PfxSection == uH \o <<"/", "s", "e", "c", "t", "i", "o", "n">>
PfxA == uH \o <<"/", "a">>
PfxOut == <<"h", "t", "t", "p", ":", "/", "/", "o", "/">>
AllowLists == {<<>>, <<PfxHost>>, <<PfxSection>>, <<PfxOut, PfxA>>}
IgnoreLists == {<<>>, <<PfxA>>, <<PfxOut, uH \o <<"/", "i">>>>}

PruneInit ==
    /\ pc = "idle"
    /\ start_url = <<>> /\ crawl_depth = -1 /\ upload_release_name = None
    /\ pending_urls = {} /\ seen_urls = {} /\ good_urls = {}
    /\ depth = 0
    /\ output = <<>> /\ idx = 1
    /\ release_name = None /\ release_number = 0
    /\ run_requests = {} /\ release_url = None
    /\ n_create = 0 /\ n_finalize = 0
    /\ events = <<>>
    /\ processed = {}
    /\ fetches = <<>>
    /\ site = NoSite
    /\ \E c \in CandSets, al \in AllowLists, ig \in IgnoreLists :
           probe = [stage |-> 0, url_set |-> c, allowed |-> al,
                    ignored |-> ig, result |-> {}]

\* prune_urls(url_set, start_url, allowed_list, ignored_list)
PruneOnce ==
    /\ probe.stage = 0
    /\ probe' = [probe EXCEPT
                    !.stage = 1,
                    !.result = prune_urls(probe.url_set, PfxHost,
                                          probe.allowed, probe.ignored)]
    /\ UNCHANGED <<pc, conf, sets, depth, output, idx, pub, hist, site>>

PruneNext == PruneOnce

SpecPrune == PruneInit /\ [][PruneNext]_vars

----------------------------------------------------------------------------
(* extract_urls applied to a page and a document                           *)

PageDir == <<"h", "t", "t", "p", ":", "/", "/", "h", "/", "d", "i", "r", "/", "p", "a", "g", "e">>
PageRoot == <<"h", "t", "t", "p", ":", "/", "/", "h", "/">>
PageHttps == <<"h", "t", "t", "p", "s", ":", "/", "/", "h", "/", "d", "/">>
PageEmptySeg == <<"h", "t", "t", "p", ":", "/", "/", "h", "/", "/", "d", "/", "p", "a", "g", "e">>
PageSchemeSeg == <<"h", "t", "t", "p", ":", "/", "/", "h", "/", "h", "t", "t", "p", ":", "/", "/", "x", "/", "p">>
ExtractPages == {PageDir, PageRoot, PageHttps, PageEmptySeg, PageSchemeSeg}
ValImg == <<"i", "m", "g", ".", "p", "n", "g">>
ValUp == <<".", ".", "/", "x">>
ValHere == <<".", "/", "x">>
ValRoot == <<"/", "r", "/", "s">>
ValBareRoot == <<"/">>
RefValues ==
    {ValImg, ValUp, ValHere, ValRoot, ValBareRoot,
     <<"/", "/", "h", "/", "b", "#", "x">>,
     <<"h", "t", "t", "p", ":", "/", "/", "o", "/">>,
     <<"#", "t", "o", "p">>,
     <<"a", "?", "x", "=", "1">>,
     <<"H", "T", "T", "P", ":", "/", "/", "H", "/", "P">>,
     <<"a", "&", "a", "m", "p", ";", "b">>,
     <<>>,
     <<"/", "/">>,
     <<"/", "h", "t", "t", "p", ":", "/", "/", "x">>,
     <<".", ".">>,
     <<"h", "t", "t", "p", "s", ":", "/", "/", "h", "/", "a", "/", ".", ".", "/", "b">>,
     <<"h", "t", "t", "p", ":", "/", "/", "h", "/", ".", ";", "/", ".">>,
     <<"u", "r", "l", "(", "x", ")">>}
\* The attributes a document can hold: an href with any value, quoted or
\* not, and the other attribute names with one value.
ExtractAttrs ==
    {[tag |-> "href", spaced |-> TRUE, quote |-> qu, value |-> v] :
        qu \in {"\"", "'", ""}, v \in RefValues}
    \cup {[tag |-> t, spaced |-> sp, quote |-> "\"", value |-> ValImg] :
              t \in {"src", "action", "url", "background", "alt"},
              sp \in BOOLEAN}
\* The subsets of S with at most n members.
RECURSIVE SubsetsUpTo(_, _)
SubsetsUpTo(S, n) ==
    IF n = 0 THEN {{}}
    ELSE {d \cup e : d \in SubsetsUpTo(S, n - 1), e \in {{}} \cup {{a} : a \in S}}
\* Most attributes in one document.
MaxAttrs == 1
ExtractDocs == SubsetsUpTo(ExtractAttrs, MaxAttrs)

ExtractInit ==
    /\ pc = "idle"
    /\ start_url = <<>> /\ crawl_depth = -1 /\ upload_release_name = None
    /\ pending_urls = {} /\ seen_urls = {} /\ good_urls = {}
    /\ depth = 0
    /\ output = <<>> /\ idx = 1
    /\ release_name = None /\ release_number = 0
    /\ run_requests = {} /\ release_url = None
    /\ n_create = 0 /\ n_finalize = 0
    /\ events = <<>>
    /\ processed = {}
    /\ fetches = <<>>
    /\ site = NoSite
    /\ \E page \in ExtractPages, doc \in ExtractDocs :
           probe = [stage |-> 0, url |-> page, data |-> doc, result |-> {}]

\* extract_urls(url, data)
ExtractOnce ==
    /\ probe.stage = 0
    /\ probe' = [probe EXCEPT !.stage = 1,
                              !.result = extract_urls(probe.url, probe.data)]
    /\ UNCHANGED <<pc, conf, sets, depth, output, idx, pub, hist, site>>

ExtractNext == ExtractOnce

SpecExtract == ExtractInit /\ [][ExtractNext]_vars

\* The coordinator runs every item it is given and resumes the generator.
FairSpec == Spec /\ WF_vars(Next)

----------------------------------------------------------------------------
(* Properties                                                              *)

CleanSeed == clean_url(start_url, <<>>)
CrawlingPcs == {"fetching", "found", "finished"}
PublishingPcs == {"creating", "registering", "marking", "finalizing"}
DonePcs == {"results", "done"}
\* The URLs whose run request the release server has acknowledged.
Registered == {r.url : r \in {q \in run_requests : q.state = "ok"}}
FailedRuns == {r \in run_requests : r.state = "error"}
SkippedResults == {r \in processed : ~r.data \/ r.ctype # TextHtml}
GoodResults == {r \in processed : r.data /\ r.ctype = TextHtml}
Emitted(kind) == \E i \in 1..Len(events) : events[i].kind = kind

\* C1 as stated: in every reachable state every URL of the frontier
\* (pending_urls) is in the visited set (seen_urls).
C1_FrontierInVisited == pending_urls \subseteq seen_urls

\* C1, amended: seen_urls never loses a member; while a batch of fetches is
\* awaited every URL of pending_urls is in seen_urls; in every other state
\* (before the first batch, after a level's results were gone through, when
\* the loop is left) pending_urls holds only URLs that are not in seen_urls.
C1_FrontierInVisitedWhileFetching ==
    /\ [](/\ pc = "fetching" => pending_urls \subseteq seen_urls
          /\ pc # "fetching" => pending_urls \cap seen_urls = {})
    /\ [][seen_urls \subseteq seen_urls']_vars

\* The loop was left on the depth bound with URLs found but not fetched.
C1_Witness ==
    /\ pc = "total"
    /\ crawl_depth >= 0
    /\ pending_urls # {}
    /\ seen_urls # {}

\* C2 as stated: with crawl_depth = 0 only the seed is fetched, no URL found
\* in the seed page is added to pending_urls or seen_urls, and good_urls is
\* a subset of {seed}.
C2_NoExpansionAtDepthZero ==
    crawl_depth = 0 =>
        /\ \A i \in 1..Len(fetches) : fetches[i] \subseteq {CleanSeed}
        /\ pending_urls \subseteq {CleanSeed}
        /\ seen_urls \subseteq {CleanSeed}
        /\ good_urls \subseteq {CleanSeed}

\* C2, amended: with crawl_depth = 0 there is at most one batch of fetches,
\* it holds only the cleaned seed, and seen_urls and good_urls are subsets of
\* {cleaned seed}; the URLs found in the seed page are put in pending_urls
\* but never fetched: once the seed was gone through pending_urls holds none
\* of the URLs fetched.
C2_OnlySeedFetchedAtDepthZero ==
    crawl_depth = 0 =>
        /\ Len(fetches) <= 1
        /\ \A i \in 1..Len(fetches) : fetches[i] = {CleanSeed}
        /\ seen_urls \subseteq {CleanSeed}
        /\ good_urls \subseteq {CleanSeed}
        /\ pc \notin {"start", "scanning", "fetching"} =>
               \A i \in 1..Len(fetches) : pending_urls \cap fetches[i] = {}

\* A run with crawl_depth = 0 ended with the seed good and found URLs left.
C2_Witness ==
    /\ crawl_depth = 0
    /\ pc = "done"
    /\ good_urls = {CleanSeed}
    /\ pending_urls # {}

\* C3 as stated: after a failed request no RunsDoneWorkflow is requested and
\* no release URL is reported, and a failed run leaves no partial publish:
\* never only some of the good URLs registered.
C3_NoPartialPublish ==
    /\ FailedRuns # {} => n_finalize = 0
    /\ pc = "failed" => release_url = None /\ Registered \in {{}, good_urls}

\* C3, amended: a failure of the release's creation, of a run request or of
\* RunsDoneWorkflow ends the run failed; from then on no request is issued
\* and nothing more is reported; the release is never marked done after a
\* run request failed, and only once every good URL is registered.  The runs
\* registered before the failure stay registered.
C3_FailureIsFatal ==
    /\ [](FailedRuns # {} => n_finalize = 0 /\ pc \in {"registering", "failed"})
    /\ [](pc = "failed" =>
              n_create = 1 /\ release_url = None /\ ~Emitted("results"))
    /\ [](n_finalize > 0 => Registered = good_urls)
    /\ [][pc = "failed" =>
              pc' = "failed" /\ UNCHANGED <<n_create, n_finalize, run_requests,
                                            release_url, events>>]_vars

\* A run failed with one good URL registered and another one not.
C3_Witness ==
    /\ pc = "failed"
    /\ Registered # {}
    /\ Registered # good_urls

\* C4: the release is created before any run is requested, every run
\* request is done before RunsDoneWorkflow is requested, and the message
\* with the release's URL is emitted only after RunsDoneWorkflow returned.
C4_PublishingOrder ==
    /\ run_requests # {} => n_create = 1 /\ release_number \in ReleaseNumbers
    /\ n_finalize > 0 => \A r \in run_requests : r.state = "ok"
    /\ Emitted("results") => n_finalize = 1 /\ release_url = ReleaseUrl
    /\ Emitted("results") => events[Len(events)].kind = "results"

\* A run ended with two runs registered.
C4_Witness ==
    /\ pc = "done"
    /\ Cardinality(run_requests) >= 2

\* C5: when the run is done the release was created once and there is one
\* run request per good URL and no other, each with the build id, the
\* release name and the number the creation returned; on the site whose seed
\* links to one page under the start URL and to one outside it, with
\* crawl_depth = 1, the good and the seen URLs are the seed and that page,
\* and 2 runs are registered.
C5_RunsMatchAccepted ==
    /\ pc \in DonePcs =>
        /\ n_create = 1
        /\ {r.url : r \in run_requests} = good_urls
        /\ Cardinality(run_requests) = Cardinality(good_urls)
        /\ Registered = good_urls
        /\ \A r \in run_requests :
              /\ r.build_id = BuildId
              /\ r.release_name = IF upload_release_name = None
                                  THEN TimestampName
                                  ELSE upload_release_name
              /\ r.release_number = release_number
    /\ (pc \in DonePcs /\ site = LinkSite /\ crawl_depth = 1) =>
        /\ good_urls = {UrlSeed, UrlA}
        /\ seen_urls = {UrlSeed, UrlA}
        /\ Cardinality(Registered) = 2

\* The run on that site is done.
C5_Witness ==
    /\ pc = "done"
    /\ site = LinkSite
    /\ crawl_depth = 1
    /\ upload_release_name = None
    /\ release_number = 2

\* C6: a batch holds one fetch per URL of pending_urls, and while a fetch of
\* the batch is not done the generator stays suspended: no result is gone
\* through, no set changes and no other batch is given out.
C6_JoinBarrier ==
    /\ [](pc = "fetching" =>
            /\ Len(output) = Cardinality(pending_urls)
            /\ {output[i].url : i \in 1..Len(output)} = pending_urls
            /\ fetches[Len(fetches)] = pending_urls)
    /\ [][(pc = "fetching" /\ ~BatchDone(output)) =>
              /\ pc' = "fetching"
              /\ UNCHANGED <<sets, depth, idx, processed, fetches, events>>]_vars

\* A batch of two fetches, one done and one not.
C6_Witness ==
    /\ pc = "fetching"
    /\ Len(output) = 2
    /\ output[1].done
    /\ ~output[2].done

\* C7: a result with no data or with a content type other than text/html is
\* skipped: its URL is not good, nothing it holds reaches pending_urls or
\* seen_urls, the other results of the level are gone through, and the run
\* fails only in publishing.
C7_SkippedSilently ==
    /\ \A r \in SkippedResults : r.url \notin good_urls
    /\ (\E r \in SkippedResults : r.url = CleanSeed) =>
           seen_urls = {CleanSeed} /\ pending_urls = {}
    /\ site = PlainSite => UrlB \notin pending_urls \cup seen_urls
    /\ pc \in {"finished", "total", "failed"} \cup PublishingPcs \cup DonePcs =>
           {r.url : r \in processed} = seen_urls
    /\ pc = "failed" => n_create = 1

\* One page of a level was skipped, another one of that level was good, and
\* the release is being created.
C7_Witness ==
    /\ pc = "creating"
    /\ \E r \in SkippedResults : r.url = UrlA /\ r.data
    /\ UrlB \in good_urls

\* C8: good_urls is a subset of seen_urls, and a URL is good exactly when a
\* result for it with data and content type text/html was gone through.
C8_AcceptedAreHtml ==
    /\ good_urls \subseteq seen_urls
    /\ good_urls = {r.url : r \in GoodResults}

\* A run ended with three URLs seen, two of them good.
C8_Witness ==
    /\ pc = "done"
    /\ Cardinality(seen_urls) = 3
    /\ Cardinality(good_urls) = 2

\* C9 as stated: with crawl_depth = -1, on the site whose two pages link to
\* each other, the generator never leaves the crawl loop.
C9_NeverLeavesCrawling ==
    (site = CycleSite /\ crawl_depth = -1) =>
        pc \in {"start", "scanning"} \cup CrawlingPcs

\* C9, amended: with crawl_depth = -1 and every fetch answered the crawl
\* loop is left, also on a site whose pages link to each other, because no
\* URL is in two batches.
C9_CrawlEnds ==
    /\ crawl_depth = -1 => <>(pc = "total")
    /\ [](\A i, j \in 1..Len(fetches) :
             i # j => fetches[i] \cap fetches[j] = {})

\* The crawl of the site whose two pages link to each other has ended.
C9_Witness ==
    /\ site = CycleSite
    /\ crawl_depth = -1
    /\ pc = "total"
    /\ Len(fetches) = 2
    /\ good_urls = {UrlSeed, UrlA}

\* C10: clean_url(clean_url(u, s), s) = clean_url(u, s).
C10_Idempotent == probe.stage = 2 => probe.twice = probe.once

\* C11: clean_url("http://h/a/b/../c") is "http://h/a/c/",
\* clean_url("http://h/a/./b/") is "http://h/a/b/" and
\* clean_url("http://h/a?x=1#y") is "http://h/a/": the result's path ends
\* with a "/".
C11_Examples ==
    (probe.stage >= 1 /\ probe.force = <<>>) =>
        /\ probe.url = ExDotDot => probe.once = uH \o <<"/", "a", "/", "c", "/">>
        /\ probe.url = ExDot => probe.once = uH \o <<"/", "a", "/", "b", "/">>
        /\ probe.url = ExQuery => probe.once = uH \o <<"/", "a", "/">>

Extension(url) ==
    IF Len(Split(url, ".")) = 1 THEN <<>>
    ELSE Split(url, ".")[Len(Split(url, "."))]
HasPrefix(url, prefix) ==
    /\ Len(prefix) <= Len(url)
    /\ \A k \in 1..Len(prefix) : url[k] = prefix[k]
InAny(url, prefixes) == \E k \in 1..Len(prefixes) : HasPrefix(url, prefixes[k])

\* C13: prune_urls keeps a candidate exactly when it starts with an allowed
\* prefix, starts with no ignored prefix, and the text after its last "."
\* is, in lower case, none of jpg, jpeg, png, css, js, xml, json, gif, ico,
\* doc; the result is a subset of the candidates; a candidate under an
\* ignored prefix is dropped also under an allowed one; one without "." is
\* not dropped for its suffix.
C13_FilterKeeps ==
    probe.stage = 1 =>
        /\ probe.result \subseteq probe.url_set
        /\ \A u \in probe.url_set :
              u \in probe.result <=>
                  /\ InAny(u, probe.allowed)
                  /\ ~InAny(u, probe.ignored)
                  /\ Lower(Extension(u)) \notin
                         {<<"j", "p", "g">>,
                          <<"j", "p", "e", "g">>,
                          <<"p", "n", "g">>,
                          <<"c", "s", "s">>,
                          <<"j", "s">>,
                          <<"x", "m", "l">>,
                          <<"j", "s", "o", "n">>,
                          <<"g", "i", "f">>,
                          <<"i", "c", "o">>,
                          <<"d", "o", "c">>}
        /\ probe.result \cap {CandPng, CandPNG, CandJson} = {}
        /\ probe.allowed = <<PfxSection>> => CandOther \notin probe.result
        /\ (probe.allowed = <<PfxHost>> /\ probe.ignored = <<PfxA>>) =>
               CandHtml \notin probe.result
        /\ (probe.allowed = <<PfxHost>> /\ CandOther \in probe.url_set
            /\ ~InAny(CandOther, probe.ignored)) => CandOther \in probe.result

\* A candidate under an allowed and an ignored prefix was dropped while
\* another candidate was kept.
C13_Witness ==
    /\ probe.stage = 1
    /\ probe.allowed = <<PfxOut, PfxA>>
    /\ probe.ignored = <<PfxA>>
    /\ probe.url_set = {CandHtml, CandOut}
    /\ probe.result = {CandOut}

\* The text of a page's URL up to its last "/": scheme://host/dir/.
PageDirectory(url) == SubSeq(url, 1, RFind(url, "/"))
\* scheme://host of a page's URL.
PageBase(url) == urlsplit(url).scheme \o <<":", "/", "/">> \o urlsplit(url).netloc

\* C14: for a page at scheme://host/dir/page and a document with an
\* attribute src, href, action, url or background whose value is a
\* same-directory reference r, the result of extract_urls holds
\* scheme://host/dir/r; a traversal, a root-relative and a bare-root
\* reference are absolute when the text is scanned, so the result holds
\* their URL.
C14_SameDirResolved ==
    probe.stage = 1 =>
        \A a \in probe.data :
            (a.spaced /\ a.tag # "alt") =>
                /\ a.value = ValImg =>
                       PageDirectory(probe.url) \o ValImg \in probe.result
                /\ a.value = ValHere =>
                       PageDirectory(probe.url) \o <<"x">> \in probe.result
                /\ a.value = ValUp => probe.result # {}
                /\ a.value = ValRoot =>
                       PageBase(probe.url) \o ValRoot \in probe.result
                /\ a.value = ValBareRoot =>
                       PageBase(probe.url) \o <<"/">> \in probe.result

\* C20: every URL of the result of extract_urls is left unchanged by
\* clean_url (no "." or ".." segment, no query, no fragment, a path that is
\* not empty) and has the scheme of the page, whatever scheme the reference
\* had.
C20_ResultCanonical ==
    probe.stage = 1 =>
        \A u \in probe.result :
            /\ clean_url(u, <<>>) = u
            /\ urlsplit(u).scheme = urlsplit(probe.url).scheme
            /\ urlsplit(u).query = <<>> /\ urlsplit(u).fragment = <<>>
            /\ urlsplit(u).path # <<>>
            /\ \A k \in 1..Len(Split(urlsplit(u).path, "/")) :
                   Split(urlsplit(u).path, "/")[k] \notin {<<".">>, <<".", ".">>}

\* The pages of site s that a reference of page p leads to.
Targets(s, p) == {q \in Pages : \E r \in s[p].refs : clean_url(r, sHttp) = q}
\* The pages of site s within n link hops of the seed.
RECURSIVE Within(_, _)
Within(s, n) ==
    IF n = 0 THEN {UrlSeed}
    ELSE Within(s, n - 1)
         \cup UNION {Targets(s, p) : p \in Within(s, n - 1)}

\* C15: with crawl_depth = d >= 0 and every request answered there are at
\* most d + 1 batches of fetches, the batch of level k holds only URLs
\* within k link hops of the seed, a batch is given out only while depth <=
\* d and pending_urls is not empty, the loop is left only when pending_urls
\* is empty or depth > d, and the step that follows is the request of the
\* release.
C15_DepthBound ==
    /\ [](crawl_depth >= 0 =>
            /\ Len(fetches) <= crawl_depth + 1
            /\ pc \in CrawlingPcs => depth <= crawl_depth
            /\ pc = "total" => pending_urls = {} \/ depth = crawl_depth + 1
            /\ site # NoSite =>
                   \A k \in 1..Len(fetches) :
                       fetches[k] \subseteq Within(site, k - 1))
    /\ [][(crawl_depth >= 0 /\ pc' = "fetching" /\ pc # "fetching") =>
              pending_urls # {} /\ depth' <= crawl_depth]_vars
    /\ [][(crawl_depth >= 0 /\ pc' = "total" /\ pc # "total") =>
              pending_urls = {} \/ depth' > crawl_depth]_vars
    /\ [][(crawl_depth >= 0 /\ pc = "total") =>
              pc' = "creating" /\ n_create' = 1 /\ UNCHANGED sets]_vars

\* With crawl_depth = 1 the loop was left after two batches with a URL
\* found at the second level and not fetched.
C15_Witness ==
    /\ site = LinkSite
    /\ crawl_depth = 1
    /\ pc = "creating"
    /\ Len(fetches) = 2
    /\ depth = 2
    /\ pending_urls = {UrlB}

\* The URLs given to the fetcher so far.
Fetched == UNION {fetches[k] : k \in 1..Len(fetches)}

\* C16: no URL is fetched twice: a batch holds each of its URLs once, the
\* batches are disjoint, and the URLs gathered for the next level are none
\* of the URLs fetched, whatever pages refer to them and also when their
\* fetch gave no data.
C16_FetchedOnce ==
    /\ \A i, j \in 1..Len(output) : i # j => output[i].url # output[j].url
    /\ \A i, j \in 1..Len(fetches) : i < j => fetches[i] \cap fetches[j] = {}
    /\ pc # "fetching" => pending_urls \cap Fetched = {}
    /\ Fetched = seen_urls
    /\ \A r \in processed :
           Cardinality({k \in 1..Len(fetches) : r.url \in fetches[k]}) = 1

\* The fetch of a page gave no data, another page of its level refers to
\* it, and it is not gathered for the next level.
C16_Witness ==
    /\ site = NoSite
    /\ pc = "found"
    /\ Len(fetches) = 2
    /\ Len(output) = 2
    /\ output[1].url = UrlA /\ ~output[1].data
    /\ output[2].url = UrlB /\ output[2].refs = {RefA, RefSeed}
    /\ pending_urls = {}
    /\ events[Len(events)] = [kind |-> "found", n |-> 0, url |-> UrlB]


\* The URLs the crawl has worked with: gathered, fetched, accepted or
\* registered as runs.
Crawled ==
    pending_urls \cup seen_urls \cup Fetched \cup good_urls
        \cup {r.url : r \in run_requests}

\* C17: every URL gathered for a level, other than the normalized seed,
\* starts with the start URL as the caller supplied it, starts with no
\* ignored prefix and has no static-asset suffix; so does every URL that is
\* fetched, accepted or registered as a run.
C17_FrontierFiltered ==
    \A u \in Crawled \ {CleanSeed} :
        /\ HasPrefix(u, start_url)
        /\ ~InAny(u, IgnorePrefixes)
        /\ Lower(Extension(u)) \notin IGNORE_SUFFIXES

\* A page of the second level referred to a page under an ignored prefix and
\* to an image; the page is accepted and neither reference is gathered.
C17_Witness ==
    /\ site = NoSite
    /\ pc = "found"
    /\ Len(fetches) = 2
    /\ [url |-> UrlSeed, data |-> TRUE, ctype |-> TextHtml] \in processed
    /\ fetches[2] = {UrlA}
    /\ output[1].refs = {RefIgn, RefPng}
    /\ good_urls = {UrlSeed, UrlA}
    /\ pending_urls = {}


\* The crawl loop has not been left: from the call of run to the last
\* "finished" heartbeat.
LoopPcs == {"start", "scanning"} \cup CrawlingPcs

\* C18: pending_urls, seen_urls and good_urls change only while the crawl
\* loop runs; from the request of CreateReleaseWorkflow on no batch of
\* FetchItems is yielded and none of the three sets changes, and the URLs of
\* the run requests are good_urls; while the crawl loop runs, no request is
\* made to the release server.
C18_SetsFrozenAfterCrawl ==
    /\ [][(sets' # sets \/ fetches' # fetches) =>
              (pc \in LoopPcs /\ n_create = 0)]_vars
    /\ [][n_create > 0 => UNCHANGED <<sets, fetches, output>>]_vars
    /\ [](pc \in {"registering", "marking", "finalizing"} \cup DonePcs =>
              {r.url : r \in run_requests} = good_urls)
    /\ [](pc \in {"marking", "finalizing"} \cup DonePcs =>
              Registered = good_urls)
    /\ [](pc \in LoopPcs =>
              n_create = 0 /\ n_finalize = 0 /\ run_requests = {})
    /\ [](n_create > 0 => pc \notin LoopPcs)

\* The run is done; a URL gathered for the next level was left unfetched,
\* and the runs registered are the pages accepted by the crawl.
C18_Witness ==
    /\ pc = "done"
    /\ site = LinkSite
    /\ crawl_depth = 1
    /\ pending_urls = {UrlB}
    /\ Fetched = {UrlSeed, UrlA}
    /\ good_urls = {UrlSeed, UrlA}
    /\ Registered = {UrlSeed, UrlA}
    /\ n_create = 1 /\ n_finalize = 1


IsFinished(e) == e.kind = "finished"
\* The "Finished crawl at depth" heartbeats, in the order emitted.
FinishedEvents == SelectSeq(events, IsFinished)
\* The level an event belongs to: one more than the number of "finished"
\* heartbeats before it.
LevelOf(i) == 1 + Len(SelectSeq(SubSeq(events, 1, i - 1), IsFinished))

\* C19: the heartbeats are emitted in the order of the run. There is one
\* "finished" heartbeat per level crawled, the k-th with depth k - 1. Every
\* "found" heartbeat is for a page of the batch of its level, comes after
\* every fetch of that batch is done and before the level's "finished"
\* heartbeat. The heartbeat with the release URL is the last of the run.
C19_EventOrder ==
    /\ [](Len(FinishedEvents) = IF pc \in {"fetching", "found"}
                                THEN Len(fetches) - 1 ELSE Len(fetches))
    /\ [](\A k \in 1..Len(FinishedEvents) : FinishedEvents[k].depth = k - 1)
    /\ [](\A i \in 1..Len(events) :
            events[i].kind = "found" =>
                /\ LevelOf(i) <= Len(fetches)
                /\ events[i].url \in fetches[LevelOf(i)]
                /\ \A j \in 1..Len(events) :
                       (events[j].kind = "finished"
                            /\ events[j].depth = LevelOf(i) - 1) => i < j)
    /\ [][(Len(events') > Len(events)
              /\ events'[Len(events')].kind = "found") =>
                 /\ BatchDone(output)
                 /\ \E k \in 1..Len(output) :
                        output[k].url = events'[Len(events')].url
                 /\ {output[k].url : k \in 1..Len(output)}
                        = fetches[Len(fetches)]]_vars
    /\ [](\A i \in 1..Len(events) :
            events[i].kind = "results" =>
                i = Len(events) /\ events[i].url = release_url)
    /\ [](pc \in DonePcs =>
            Len(events) > 0 /\ events[Len(events)].kind = "results")
    /\ [][events' = events \/ (Len(events') = Len(events) + 1
              /\ SubSeq(events', 1, Len(events)) = events)]_vars

\* A run over three levels is done: its heartbeats from first to last.
C19_Witness ==
    /\ pc = "done"
    /\ site = LinkSite
    /\ events = <<[kind |-> "scanning"],
                  [kind |-> "found", n |-> 1, url |-> UrlSeed],
                  [kind |-> "finished", depth |-> 0],
                  [kind |-> "found", n |-> 1, url |-> UrlA],
                  [kind |-> "finished", depth |-> 1],
                  [kind |-> "found", n |-> 0, url |-> UrlB],
                  [kind |-> "finished", depth |-> 2],
                  [kind |-> "total", total |-> 3, good |-> 3],
                  [kind |-> "marking"],
                  [kind |-> "results", url |-> ReleaseUrl]>>

====
